---- MODULE Spec2Model ----
(***************************************************************************)
(* Model of Python_model/FollicleFunction.py: the right-hand side of the   *)
(* follicle/hormone ODE system.                                            *)
(*                                                                         *)
(* Real numbers are fixed-point integers: a size, hormone level, rate or   *)
(* derivative v is held as the integer v * Scale.  Times (t, Tovu, the     *)
(* entries of 'Time', 'TimeDecrease', parafoll[10], [13], [14]) and the     *)
(* exponents (parafoll[0], Par[56]) are plain integers.                    *)
(*                                                                         *)
(* Python objects passed by reference (the array y, the registry           *)
(* Follicles) are variables of the model: a write through the slice view   *)
(* x = y[:NumFollicles] is a write to y.                                   *)
(***************************************************************************)
EXTENDS Integers, Sequences, FiniteSets, Bags, TLC

VARIABLES
    y,          \* the caller's state vector: follicle sizes, then para[1] hormone slots
    Follicles,  \* the registry: [Follicle, Active, ActiveFSHS]
    para,       \* para[0]: mode (0 normal, 1 test), para[1]: number of non-follicle slots
    parafoll,   \* follicle parameters, by index
    Par,        \* hormone parameters, by index
    f,          \* follicle slots of the vector returned by the last call
    E2_lvl,     \* E2 level computed by the last call
    P4_lvl,     \* P4 level computed by the last call
    pre,        \* arguments of the last call as they were at entry
    called,     \* TRUE when the last step was a call of FollicleFunction
    raised,     \* TRUE when that call ended by raising IndexError instead of returning
    writes,     \* per follicle record: number of assignments of TimeDecrease so far (capped)
    sampler,    \* forecasting.py sample_data: its arguments, loop position and output so far
    comparator, \* model_comparison.py compare_models: peaks, window offset and results so far
    predictor   \* ovulation_predicting/models.py: the last call of a model's method and its result

vars == <<y, Follicles, para, parafoll, Par, f, E2_lvl, P4_lvl, pre, called, raised, writes,
          sampler, comparator, predictor>>

-----------------------------------------------------------------------------
(* Bounds of the model *)

MaxFoll == 2        \* at most this many follicle slots
MaxT == 1           \* evaluation times are 0 .. MaxT
WriteCap == 2       \* the write counter saturates here

Scale == 10 * 10 * 10   \* fixed-point unit: 1.0 is held as Scale

(* Inputs: small sets of values for sizes, hormone slots and parameters *)
SizeSet == {2000, 5000}                 \* follicle sizes 2.0 and 5.0
FSHSet == {500}                         \* value of the hormone slots (FSH residual 0.5)
FSHSens == 5 * 100                      \* Follicles.ActiveFSHS entries (0.5)
TovuSet == {-7}                         \* time of the last ovulation
DestinySet == {-3, -2, -1, 3, 4}        \* Atretic, MarkedForDecline, Growing, Dominant, Ovulated
Para1Set == {15}                        \* para[1]
Parafoll11Set == {-10, 10}              \* low growth threshold -0.01 or 0.01
TimeDecreaseInit == {0}                 \* TimeDecrease of a record when the run starts

Growing == -1
MarkedForDecline == -2
Atretic == -3
Dominant == 3
Ovulated == 4

-----------------------------------------------------------------------------
(* Fixed-point arithmetic *)

Mul(a, b) == (a * b) \div Scale
Div(a, b) == (a * Scale) \div b

\* a ** n for a natural exponent n
Pow(a, n) ==
    LET p[k \in 0..n] == IF k = 0 THEN Scale ELSE (p[k - 1] * a) \div Scale
    IN  p[n]

RECURSIVE SumSeq(_)
SumSeq(s) == IF s = <<>> THEN 0 ELSE Head(s) + SumSeq(Tail(s))

\* np.exp of a non-positive fixed-point argument a: 1 / (1 + q + q^2/2 + q^3/6), q = -a
np_exp(a) ==
    LET q == 0 - a
    IN  Div(Scale, Scale + q + (Mul(q, q) \div 2) + (Mul(Mul(q, q), q) \div 6))

np_pi == 3142

\* the float nan: held as an integer above every finite value of the model, so
\* that every comparison  nan <= c  of the code is false, as in IEEE arithmetic
NaN == 1073741824

\* Python indexing a[k] with a 0-based k, negative k counting from the end
PyIndex(a, k) == IF k >= 0 THEN a[k + 1] ELSE a[Len(a) + k + 1]

-----------------------------------------------------------------------------
(* FollicleFunction, line by line *)

\* lines 40-41: the index r - 15 of the FSH-receptor complex in y
FshIndex(yy) == Len(yy) - 15

\* line 7 with the count one short
NumFolliclesLessOne(yy, pa) == Len(yy) - pa[1] - 1

\* line 7
NumFollicles(yy, pa) == Len(yy) - pa[1]

\* Rec without the look-up in Follicles.Active: the record at the position of the slot
RecByPosition(F, i) == F.Follicle[i + 1]

\* the record of the follicle in slot i (0-based i): Follicles.Follicle[Follicles.Active[i]-1]
Rec(F, i) == F.Follicle[F.Active[i + 1]]

\* lines 18-19: the first slot i (0-based) below n for which Follicles.Active[i]
\* or Follicles.Follicle[Follicles.Active[i]-1] raises IndexError; n when there is none
FirstBadSlot(F, n) ==
    LET bad == {i \in 0..(n - 1) :
                    \/ i + 1 > Len(F.Active)
                    \/ F.Active[i + 1] \notin 1..Len(F.Follicle)}
    IN  IF bad = {} THEN n ELSE CHOOSE i \in bad : \A j \in bad : i <= j

\* lines 14-20: x[i] = 0 through the view x of y, for the destinies in dset
ZeroSlots(yy, F, n, dset) ==
    [j \in 1..Len(yy) |->
        IF j <= n /\ Rec(F, j - 1).Destiny \in dset THEN 0 ELSE yy[j]]

\* ZeroedY without the loop of lines 23-26
ZeroedYNoOvulated(yy, F, pa) ==
    LET n == NumFollicles(yy, pa)
    IN  IF n > 0 /\ pa[0] = 0 THEN ZeroSlots(yy, F, n, {-2, -3}) ELSE yy

\* ZeroedY without the test para[0] == 0 of lines 14 and 23
ZeroedYAnyMode(yy, F, pa) ==
    LET n == NumFollicles(yy, pa)
        k == FirstBadSlot(F, n)
    IN  IF n > 0
        THEN IF k < n
             THEN ZeroSlots(yy, F, k, {-2, -3})
             ELSE ZeroSlots(ZeroSlots(yy, F, n, {-2, -3}), F, n, {4})
        ELSE yy

\* lines 9-26: the array y after the two zeroing loops; the first loop stops
\* at the slot whose registry lookup raises, and the second is then not reached
ZeroedY(yy, F, pa) ==
    LET n == NumFollicles(yy, pa)
        k == FirstBadSlot(F, n)
    IN  IF n > 0 /\ pa[0] = 0
        THEN IF k < n
             THEN ZeroSlots(yy, F, k, {-2, -3})
             ELSE ZeroSlots(ZeroSlots(yy, F, n, {-2, -3}), F, n, {4})
        ELSE yy

\* XView with x = np.array([1]) in place of np.array([0]) at line 12
XViewOne(yy, F, pa) ==
    LET n == NumFollicles(yy, pa)
    IN  IF n > 0 THEN SubSeq(ZeroedY(yy, F, pa), 1, n) ELSE <<1000>>

\* lines 9-12: x, as a sequence, after the zeroing loops
XView(yy, F, pa) ==
    LET n == NumFollicles(yy, pa)
    IN  IF n > 0 THEN SubSeq(ZeroedY(yy, F, pa), 1, n) ELSE <<0>>

\* line 29
HillTerm(s, P) ==
    Mul(Div(Pow(s, P[56]), Pow(s, P[56]) + Pow(P[57], P[56])), Pow(s, 2))

SF(x, P) == Mul(np_pi, SumSeq([j \in 1..Len(x) |-> HillTerm(x[j], P)]))

\* the Gaussian term exp(-Par[61] * (t - (Tovu + 7)) ** 2) of lines 30-31
Bump(t, Tovu, P) == np_exp(0 - P[61] * ((t - (Tovu + 7)) * (t - (Tovu + 7))))

\* line 30
E2Level(t, x, Tovu, P) ==
    P[74] + (P[58] + Mul(P[59], SF(x, P))) + Mul(P[60], Bump(t, Tovu, P))

\* line 31
P4Level(t, Tovu, P) == P[75] + Mul(P[62], Bump(t, Tovu, P))

\* line 43
SumV(x, pf) == SumSeq([j \in 1..Len(x) |-> Pow(x[j], pf[0])])

\* line 51
gamma(p4all, fshrezcomp, pf) ==
    Mul(pf[1], Div(Scale, Scale + Pow(Div(p4all, 3 * Scale), 3))
               + Div(Pow(fshrezcomp, 5), Pow(950, 5) + Pow(fshrezcomp, 5)))

\* line 54
kappa(fshrezcomp, pf) ==
    Mul(pf[4], Div(Pow(550, 10), Pow(550, 10) + Pow(fshrezcomp, 10)))

\* line 57
ffsh(fshrezcomp, fFSH) == Div(Pow(fshrezcomp, 4), Pow(fshrezcomp, 4) + Pow(fFSH, 4))

\* line 60: the growth expression X of a follicle of size fsize; the quotient
\* of line 57 is 0.0 / 0.0 = nan when fshrezcomp and fFSH are both 0, and nan
\* times anything is nan
GrowthX(fsize, fFSH, fshrezcomp, p4all, sumV, pf) ==
    IF fshrezcomp = 0 /\ fFSH = 0
    THEN NaN
    ELSE Mul(Mul(Mul(ffsh(fshrezcomp, fFSH), pf[2] - fsize), fsize),
             gamma(p4all, fshrezcomp, pf)
               - Mul(kappa(fshrezcomp, pf), sumV - Mul(pf[3], Pow(fsize, pf[0]))))

\* MarkCond with parafoll[12] in place of parafoll[11] in the first clause
MarkCondIndexSlip(X, rec, t, pf) ==
    \/ X <= pf[12]
    \/ rec.Destiny = -2
    \/ (X <= pf[12] /\ (t - rec.Time[1]) >= pf[14] /\ rec.Destiny = 3)
    \/ (X <= pf[12] /\ (t - rec.Time[1]) >= pf[13] /\ rec.Destiny = -1)
    \/ (rec.Destiny = 3 /\ (t - rec.TimeDecrease) >= pf[10])
    \/ (rec.Time[1] - rec.Time[Len(rec.Time)] > pf[14])

\* MarkCond with the time of the decline mark in place of Time[0] at line 70
MarkCondSinceDecline(X, rec, t, pf) ==
    \/ X <= pf[11]
    \/ rec.Destiny = -2
    \/ (X <= pf[12] /\ (t - rec.Time[1]) >= pf[14] /\ rec.Destiny = 3)
    \/ (X <= pf[12] /\ (t - rec.TimeDecrease) >= pf[13] /\ rec.Destiny = -1)
    \/ (rec.Destiny = 3 /\ (t - rec.TimeDecrease) >= pf[10])
    \/ (rec.Time[1] - rec.Time[Len(rec.Time)] > pf[14])

\* lines 67-72: the condition under which the follicle is set to decrease
MarkCond(X, rec, t, pf) ==
    \/ X <= pf[11]
    \/ rec.Destiny = -2
    \/ (X <= pf[12] /\ (t - rec.Time[1]) >= pf[14] /\ rec.Destiny = 3)
    \/ (X <= pf[12] /\ (t - rec.Time[1]) >= pf[13] /\ rec.Destiny = -1)
    \/ (rec.Destiny = 3 /\ (t - rec.TimeDecrease) >= pf[10])
    \/ (rec.Time[1] - rec.Time[Len(rec.Time)] > pf[14])

\* the two writes of lines 77-78 without the guard of line 76
NotYetMarkedUnguarded(rec) == TRUE

\* line 76: the guard of the two writes
NotYetMarked(rec) == rec.Destiny # -2

\* MarkRecord writing the tag -3 in place of -2 at line 77
MarkRecordAtretic(rec, t) ==
    IF NotYetMarked(rec)
    THEN [rec EXCEPT !.Destiny = -3, !.TimeDecrease = t]
    ELSE rec

\* lines 76-78: the record after the marking
MarkRecord(rec, t) ==
    IF NotYetMarked(rec)
    THEN [rec EXCEPT !.Destiny = -2, !.TimeDecrease = t]
    ELSE rec

\* DeclineDerivative with the time of the call in place of the time since TimeDecrease
DeclineDerivativeNoStart(size, t, rec) == Mul(0 - 50, size) * (t + 1)

\* line 80
DeclineDerivative(size, t, rec) == Mul(0 - 50, size) * (t - rec.TimeDecrease)

\* line 82
AtreticDerivative(size) == (0 - 1000) * size

\* lines 62-88: the registry record of slot i after the body of the loop
BodyRecord(X, rec, t, pa, pf) ==
    IF pa[0] = 0 /\ MarkCond(X, rec, t, pf) THEN MarkRecord(rec, t) ELSE rec

\* lines 62-88: f[i] as the body of the loop assigns it
BodyDerivative(X, size, rec, t, pa, pf) ==
    IF pa[0] = 0
    THEN IF MarkCond(X, rec, t, pf)
         THEN DeclineDerivative(size, t, MarkRecord(rec, t))
         ELSE IF rec.Destiny = -3
              THEN AtreticDerivative(size)
              ELSE X
    ELSE X

\* lines 76-78: TRUE when the body of the loop assigns TimeDecrease of the record
WritesTimeDecrease(X, rec, t, pa, pf) ==
    pa[0] = 0 /\ MarkCond(X, rec, t, pf) /\ NotYetMarked(rec)

\* lines 62-88: what the body of the loop does for one slot, given its X
Body(X, size, rec, t, pa, pf) ==
    [rec |-> BodyRecord(X, rec, t, pa, pf),
     f |-> BodyDerivative(X, size, rec, t, pa, pf),
     wrote |-> WritesTimeDecrease(X, rec, t, pa, pf)]

\* lines 45-88: the loop over the slots i .. n-1 (0-based), carrying the vector f
\* and the registry F, which the body mutates in place; wr counts, per record,
\* the assignments of TimeDecrease
RECURSIVE Loop(_, _, _, _, _, _, _, _, _, _, _)
Loop(i, n, fv, F, wr, yz, t, p4all, sumV, pa, pf) ==
    IF i >= n THEN [f |-> fv, Follicles |-> F, wrote |-> wr, raised |-> FALSE]
    ELSE IF i + 1 > Len(F.ActiveFSHS)
    THEN \* line 47 raises IndexError; the writes made so far stay
         [f |-> fv, Follicles |-> F, wrote |-> wr, raised |-> TRUE]
    ELSE
        LET rec == Rec(F, i)
            fFSH == F.ActiveFSHS[i + 1]
            fsize == yz[i + 1]
            fshrezcomp == PyIndex(yz, FshIndex(yz))
            \* X is computed once per slot (line 60), then used by lines 62-88
            b == CHOOSE r \in {Body(X, yz[i + 1], rec, t, pa, pf) :
                                  X \in {GrowthX(fsize, fFSH, fshrezcomp, p4all, sumV, pf)}} : TRUE
            id == F.Active[i + 1]
            F2 == [F EXCEPT !.Follicle[id] = b.rec]
            fv2 == [fv EXCEPT ![i + 1] = b.f]
            wr2 == IF b.wrote THEN [wr EXCEPT ![id] = @ + 1] ELSE wr
        IN  Loop(i + 1, n, fv2, F2, wr2, yz, t, p4all, sumV, pa, pf)

\* lines 5-90: the whole call.  The result names the returned follicle slots f,
\* the computed hormone levels, and the two objects the call writes to.
\* The remaining slots of the returned vector are those of dy (line 37), which
\* HormoneModel.ODE_Model_NormalCycle computes from t, y, Par, E2_lvl and P4_lvl;
\* every follicle slot of dy is overwritten by the loop.
\* A call that raises returns nothing: f is empty and the levels are 0 then.
FollicleFunction(t, yy, Tovu, F, pa, pf, P) ==
    LET n == NumFollicles(yy, pa)
        yz == ZeroedY(yy, F, pa)
        x == XView(yy, F, pa)
        e2 == E2Level(t, x, Tovu, P)
        p4 == P4Level(t, Tovu, P)
        m == IF n > 0 THEN n ELSE 0
        nowrite == [k \in DOMAIN F.Follicle |-> 0]
        out == Loop(0, m, [j \in 1..m |-> 0], F, nowrite,
                    yz, t, p4, SumV(x, pf), pa, pf)
        failed == [f |-> <<>>, E2_lvl |-> 0, P4_lvl |-> 0, y |-> yz,
                   Follicles |-> F, wrote |-> nowrite, raised |-> TRUE]
    IN  IF n > 0 /\ pa[0] = 0 /\ FirstBadSlot(F, n) < n
        THEN failed                         \* line 19: IndexError
        ELSE IF FshIndex(yy) < 0 - Len(yy)
        THEN failed                         \* line 41: y[r-15] is out of range
        ELSE IF out.raised
        THEN [failed EXCEPT !.Follicles = out.Follicles, !.wrote = out.wrote]
        ELSE [f |-> out.f, E2_lvl |-> e2, P4_lvl |-> p4, y |-> yz,
              Follicles |-> out.Follicles, wrote |-> out.wrote, raised |-> FALSE]

-----------------------------------------------------------------------------
(* The state machine: the caller (integrator driver) and the calls *)

Times == 0..MaxT

\* the vector the integrator hands over: the follicle sizes, then k hormone slots
StateVector(sizes, h, k) == sizes \o [j \in 1..k |-> h]

\* the active list of a registry of n follicles, all active, in the order of creation
ActiveOrders(n) == {[j \in 1..n |-> j]}

Records ==
    [Destiny : DestinySet, TimeDecrease : TimeDecreaseInit, Time : {<<0>>}]

NoCall == [t |-> 0, Tovu |-> 0, y |-> <<>>, Follicles |-> <<>>]

\* no resampling and no model comparison under way
NoSampler == [active |-> FALSE]
NoComparator == [active |-> FALSE]
NoPredictor == [active |-> FALSE]

\* The parameter vectors are inputs of the call: parafoll[0] exponent of the
\* crowding sum, [1] growth rate 0.02, [2] maximal size 4.0, [3] own share 1.0,
\* [4] kappa 0.065, [10], [13], [14] durations, [11], [12] growth thresholds;
\* Par[56] Hill exponent, [57] half-saturation size 3.0, [58]-[62], [74], [75]
\* coefficients of the E2 and P4 levels.
\* dims: the pairs <<number of follicle slots of y, number of registry records>>;
\* recSet: the records; fshSet: the hormone slots; sens: the FSH sensitivity;
\* short: by how many slots the hormone part of y falls short of para[1];
\* p1Set: the values of para[1]
InitWith(dims, recSet, fshSet, sens, short, p1Set, sizeSet) ==
    \E d \in dims :
      /\ \E m \in {0, 1}, p1 \in p1Set : para = (0 :> m) @@ (1 :> p1)
      /\ \E sizes \in [1..d[1] -> sizeSet], h \in fshSet, k \in short :
            y = StateVector(sizes, h, para[1] - k)
      /\ \E recs \in [1..d[2] -> recSet], act \in ActiveOrders(d[2]) :
            Follicles = [Follicle |-> recs, Active |-> act,
                         ActiveFSHS |-> [j \in 1..d[2] |-> sens]]
      /\ \E p11 \in Parafoll11Set :
            parafoll = (0 :> 2) @@ (1 :> 20) @@ (2 :> 4000) @@ (3 :> 1000) @@ (4 :> 65)
                       @@ (10 :> 1) @@ (11 :> p11) @@ (12 :> 100) @@ (13 :> 1) @@ (14 :> 1)
      /\ Par = (56 :> 2) @@ (57 :> 3000) @@ (58 :> 100) @@ (59 :> 500) @@ (60 :> 1000)
               @@ (61 :> 500) @@ (62 :> 6000) @@ (74 :> 0) @@ (75 :> 0)
      /\ f = <<>> /\ E2_lvl = 0 /\ P4_lvl = 0
      /\ pre = NoCall /\ called = FALSE /\ raised = FALSE
      /\ writes = [j \in 1..d[2] |-> 0]
      /\ sampler = NoSampler /\ comparator = NoComparator /\ predictor = NoPredictor

InitOf(dims, recSet, fshSet, sens, short, p1Set) ==
    InitWith(dims, recSet, fshSet, sens, short, p1Set, SizeSet)

Init == InitOf({<<n, n>> : n \in 0..MaxFoll}, Records, FSHSet, FSHSens, {0}, Para1Set)

\* ParamsAfter with an assignment to para[1] in the call
ParamsAfterWrite(pa, pf, P) == <<[pa EXCEPT ![1] = @ - 1], pf, P>>

\* lines 5-90: the three parameter vectors after a call; no line assigns to them
ParamsAfter(pa, pf, P) == <<pa, pf, P>>

\* one call FollicleFunction(t, y, Tovu, Follicles, para, parafoll, Par, ...)
Evaluate(t, Tovu) ==
    \E r \in {FollicleFunction(t, y, Tovu, Follicles, para, parafoll, Par)} :
        /\ y' = r.y
        /\ Follicles' = r.Follicles
        /\ f' = r.f
        /\ E2_lvl' = r.E2_lvl
        /\ P4_lvl' = r.P4_lvl
        /\ pre' = [t |-> t, Tovu |-> Tovu, y |-> y, Follicles |-> Follicles]
        /\ called' = TRUE
        /\ raised' = r.raised
        /\ writes' = [k \in DOMAIN writes |->
                        IF writes[k] + r.wrote[k] < WriteCap
                        THEN writes[k] + r.wrote[k] ELSE WriteCap]
        /\ para' = ParamsAfter(para, parafoll, Par)[1]
        /\ parafoll' = ParamsAfter(para, parafoll, Par)[2]
        /\ Par' = ParamsAfter(para, parafoll, Par)[3]
        /\ UNCHANGED <<sampler, comparator, predictor>>

\* the integrator hands a new state vector of the same dimension to the next call
Integrate(sizes, h) ==
    /\ y' = StateVector(sizes, h, Len(y) - Len(sizes))
    /\ called' = FALSE /\ raised' = FALSE
    /\ pre' = NoCall /\ f' = <<>> /\ E2_lvl' = 0 /\ P4_lvl' = 0
    /\ UNCHANGED <<Follicles, para, parafoll, Par, writes, sampler, comparator, predictor>>

\* the caller switches between normal mode and test mode
SetMode(m) ==
    /\ para[0] # m
    /\ para' = [para EXCEPT ![0] = m]
    /\ called' = FALSE /\ raised' = FALSE
    /\ pre' = NoCall /\ f' = <<>> /\ E2_lvl' = 0 /\ P4_lvl' = 0
    /\ UNCHANGED <<y, Follicles, parafoll, Par, writes, sampler, comparator, predictor>>

Next ==
    \/ \E t \in Times, Tovu \in TovuSet : Evaluate(t, Tovu)
    \/ \E sizes \in [1..NumFollicles(y, para) -> SizeSet], h \in FSHSet : Integrate(sizes, h)
    \/ \E m \in {0, 1} : SetMode(m)

Spec == Init /\ [][Next]_vars

\* The boundary of no follicle slots: y holds hormone slots only, para[1] of
\* them or fewer, whatever the registry holds
MaxShort == 1
TovuBoth == {-7, -6}

InitEmpty ==
    InitOf({<<0, m>> : m \in 0..MaxFoll}, Records, FSHSet, FSHSens, 0..MaxShort, Para1Set)

NextEmpty ==
    \/ \E t \in Times, Tovu \in TovuBoth : Evaluate(t, Tovu)
    \/ \E h \in FSHSet : Integrate(<<>>, h)
    \/ \E m \in {0, 1} : SetMode(m)

SpecEmpty == InitEmpty /\ [][NextEmpty]_vars

-----------------------------------------------------------------------------
(* The last call, seen from the state it leaves behind *)

Normal == called /\ para[0] = 0
Test == called /\ para[0] = 1

\* number of follicle slots of the last call
PreN == IF NumFollicles(pre.y, para) > 0 THEN NumFollicles(pre.y, para) ELSE 0

\* the record of slot i (1-based) at entry to, and after, the last call
PreRec(i) == Rec(pre.Follicles, i - 1)
PostRec(i) == Rec(Follicles, i - 1)

RecIds == DOMAIN Follicles.Follicle

\* the growth expression of slot i computed from the arguments as passed in
RawX(i) ==
    GrowthX(pre.y[i], pre.Follicles.ActiveFSHS[i], PyIndex(pre.y, Len(pre.y) - 15),
            P4Level(pre.t, pre.Tovu, Par),
            SumV(IF PreN > 0 THEN SubSeq(pre.y, 1, PreN) ELSE <<0>>, parafoll), parafoll)

\* the registry at entry with every Destiny tag replaced by d
Retagged(d) ==
    [pre.Follicles EXCEPT !.Follicle =
        [k \in DOMAIN pre.Follicles.Follicle |->
            [pre.Follicles.Follicle[k] EXCEPT !.Destiny = d]]]

-----------------------------------------------------------------------------
(* C1 - C10 *)

\* C1: a follicle that is Atretic (-3) at entry to a normal-mode call is still
\* Atretic (-3) after the call.
C1_StickyAtretic ==
    Normal => \A k \in RecIds :
        pre.Follicles.Follicle[k].Destiny = Atretic => Follicles.Follicle[k].Destiny = Atretic

\* C2: a normal-mode call changes neither the Destiny nor the TimeDecrease of a
\* follicle that is Ovulated (4) at entry.
C2_StickyOvulated ==
    Normal => \A k \in RecIds :
        pre.Follicles.Follicle[k].Destiny = Ovulated =>
            /\ Follicles.Follicle[k].Destiny = Ovulated
            /\ Follicles.Follicle[k].TimeDecrease = pre.Follicles.Follicle[k].TimeDecrease

\* C3: one call of FollicleFunction leaves the registry (every Destiny and
\* TimeDecrease) as it was at entry.
C3_RegistryReadOnly ==
    called => \A k \in RecIds :
        /\ Follicles.Follicle[k].Destiny = pre.Follicles.Follicle[k].Destiny
        /\ Follicles.Follicle[k].TimeDecrease = pre.Follicles.Follicle[k].TimeDecrease

\* C4: after a call every entry of the caller's y equals its value at entry.
C4_StateVectorUntouched ==
    called => y = pre.y

\* C5: a second call with the same t, Tovu, the same array y, the same registry
\* and parameters computes the E2 and P4 levels and the derivatives of the first.
C5_Idempotent ==
    called =>
        LET again == FollicleFunction(pre.t, y, pre.Tovu, Follicles, para, parafoll, Par)
        IN  /\ again.E2_lvl = E2_lvl
            /\ again.P4_lvl = P4_lvl
            /\ again.f = f

\* C6: in a normal-mode call at time t, a slot whose follicle is MarkedForDecline
\* (-2) with decline start t0 and whose size at entry is s gets the derivative
\* -0.05 * s * (t - t0).
C6_DeclineDerivative ==
    Normal => \A i \in 1..PreN :
        PreRec(i).Destiny = MarkedForDecline =>
            f[i] = Mul(0 - 50, pre.y[i]) * (pre.t - PreRec(i).TimeDecrease)

\* C7: in a normal-mode call, a slot whose follicle is Atretic (-3) and whose
\* size at entry is s gets the derivative -1000 * s.
C7_SelfDestructDerivative ==
    Normal => \A i \in 1..PreN :
        PreRec(i).Destiny = Atretic => f[i] = (0 - 1000) * pre.y[i]

\* C8: TimeDecrease of a follicle is assigned at most once, in the call that
\* changes its Destiny to -2, with the t of that call; no call assigns it for a
\* follicle that is already -2, so a later call at another t keeps it.
C8_DeclineStartSetOnce ==
    [][\A k \in RecIds :
        LET a == Follicles.Follicle[k]
            b == Follicles'.Follicle[k]
        IN  /\ writes'[k] <= 1
            /\ (a.Destiny = MarkedForDecline => b.TimeDecrease = a.TimeDecrease)
            /\ (writes'[k] # writes[k] =>
                    /\ a.Destiny # MarkedForDecline
                    /\ b.Destiny = MarkedForDecline
                    /\ b.TimeDecrease = pre'.t)
            /\ (b.TimeDecrease # a.TimeDecrease => writes'[k] # writes[k])]_vars

\* C8 witness: a follicle marked by an earlier call has been evaluated again, in
\* normal mode, at a time other than its decline start.
C8_Witness ==
    Normal /\ \E k \in RecIds :
        /\ writes[k] = 1
        /\ pre.Follicles.Follicle[k].Destiny = MarkedForDecline
        /\ pre.t # Follicles.Follicle[k].TimeDecrease

\* C9: in test mode the returned derivatives do not depend on the Destiny tags
\* (they are those of the same call with every follicle tagged d, for every d),
\* and the derivative of every slot is the raw growth expression X.
C9_TestModeNonInterference ==
    Test =>
        /\ \A d \in DestinySet :
              FollicleFunction(pre.t, pre.y, pre.Tovu, Retagged(d), para, parafoll, Par).f = f
        /\ \A i \in 1..PreN : f[i] = RawX(i)

\* C9 witness: a test-mode call with two slots whose follicles carry a tag that
\* normal mode treats specially and a tag it does not.
C9_Witness ==
    Test /\ PreN >= 2 /\ \E i, j \in 1..PreN :
        /\ PreRec(i).Destiny \in {MarkedForDecline, Atretic, Ovulated}
        /\ PreRec(j).Destiny \in {Growing, Dominant}
        /\ f[i] # 0 /\ f[j] # 0

\* the thresholds of a Growing follicle: none of the clauses of lines 67-72 that
\* apply to Destiny -1 holds
AboveThresholds(X, rec, t) ==
    /\ X > parafoll[11]
    /\ ~(X <= parafoll[12] /\ t - rec.Time[1] >= parafoll[13])
    /\ rec.Time[1] - rec.Time[Len(rec.Time)] <= parafoll[14]

\* C10 as stated: a single Growing follicle whose X is strictly positive in a
\* normal-mode call is not marked for decline and gets the derivative X.
C10_GrowthOnlyAsStated ==
    (Normal /\ PreN = 1 /\ PreRec(1).Destiny = Growing /\ RawX(1) > 0) =>
        /\ PostRec(1).Destiny # MarkedForDecline
        /\ f[1] = RawX(1)

\* C10 amended: a single Growing follicle whose X is strictly positive and above
\* the thresholds (X > parafoll[11]; X > parafoll[12] or age below parafoll[13];
\* Time[0] - Time[-1] <= parafoll[14]) is not marked and gets the derivative X > 0.
C10_GrowthOnly ==
    (Normal /\ PreN = 1 /\ PreRec(1).Destiny = Growing /\ RawX(1) > 0
        /\ AboveThresholds(RawX(1), PreRec(1), pre.t)) =>
        /\ PostRec(1).Destiny = Growing
        /\ f[1] = RawX(1)
        /\ f[1] > 0

\* C10 witness: such a call has been made
C10_Witness ==
    /\ Normal /\ PreN = 1 /\ PreRec(1).Destiny = Growing /\ RawX(1) > 0
    /\ AboveThresholds(RawX(1), PreRec(1), pre.t)
    /\ f[1] = RawX(1)

\* Registries whose active list and the follicle slots of y differ in length
InitMismatch ==
    InitOf({<<n, m>> : n \in 0..MaxFoll, m \in 0..MaxFoll} \ {<<n, n>> : n \in 0..MaxFoll},
           Records, FSHSet, FSHSens, {0}, Para1Set)

SpecMismatch == InitMismatch /\ [][Next]_vars

\* State vectors whose FSH-receptor slot is 0.0, with follicles of FSH
\* sensitivity 0.0
InitNaN == InitOf({<<n, n>> : n \in 1..MaxFoll}, Records, {0}, 0, {0}, Para1Set)

SpecNaN == InitNaN /\ [][Next]_vars

\* The driver of spec section 4.4 with recruitment: the registry creates a
\* Growing follicle, and the driver gives it a slot of y in front of the hormone
\* slots and appends its id to the active list, in one step
NewFollicle == [Destiny |-> Growing, TimeDecrease |-> 0, Time |-> <<0>>]

Recruit(size) ==
    /\ Len(Follicles.Active) < MaxFoll
    /\ LET n == NumFollicles(y, para)
       IN  y' = SubSeq(y, 1, n) \o <<size>> \o SubSeq(y, n + 1, Len(y))
    /\ Follicles' = [Follicle |-> Append(Follicles.Follicle, NewFollicle),
                     Active |-> Append(Follicles.Active, Len(Follicles.Follicle) + 1),
                     ActiveFSHS |-> Append(Follicles.ActiveFSHS, FSHSens)]
    /\ writes' = Append(writes, 0)
    /\ called' = FALSE /\ raised' = FALSE
    /\ pre' = NoCall /\ f' = <<>> /\ E2_lvl' = 0 /\ P4_lvl' = 0
    /\ UNCHANGED <<para, parafoll, Par, sampler, comparator, predictor>>

InitDriver == InitOf({<<0, 0>>, <<1, 1>>}, Records, FSHSet, FSHSens, {0}, Para1Set)

NextDriver ==
    \/ Next
    \/ \E size \in SizeSet : Recruit(size)

SpecDriver == InitDriver /\ [][NextDriver]_vars

\* Follicles activated at time 0 or at time 1: Time[0] is the time of the
\* first sample of the follicle, TimeDecrease is 0 until a decline mark sets it
RecordsAge ==
    [Destiny : {Growing, Dominant}, TimeDecrease : TimeDecreaseInit, Time : {<<0>>, <<1>>}]

InitAge == InitOf({<<n, n>> : n \in 1..MaxFoll}, RecordsAge, FSHSet, FSHSens, {0}, Para1Set)

SpecAge == InitAge /\ [][Next]_vars

\* Follicles with two recorded samples, times in Time and sizes in Y: one that
\* shrank from 5.0 to 2.0 and one that grew from 2.0 to 5.0
Histories == {<<5000, 2000>>, <<2000, 5000>>}

RecordsHistory ==
    {[Destiny |-> d, TimeDecrease |-> 0, Time |-> <<0, 1>>, Y |-> h] :
        d \in DestinySet, h \in Histories}

InitHistory == InitOf({<<n, n>> : n \in 1..MaxFoll}, RecordsHistory, FSHSet, FSHSens, {0}, Para1Set)

SpecHistory == InitHistory /\ [][Next]_vars

\* Callers whose hormone part has 14, 15 or 16 slots (para[1])
HormoneSlots == {14, 15, 16}

\* follicle sizes 1.0 and 2.0
SmallSizes == {1000, 2000}

RecordsHormones ==
    [Destiny : {Growing, MarkedForDecline, Ovulated}, TimeDecrease : TimeDecreaseInit,
     Time : {<<0>>}]

InitHormones ==
    InitWith({<<n, n>> : n \in 0..MaxFoll}, RecordsHormones, FSHSet, FSHSens, {0},
             HormoneSlots, SmallSizes)

NextHormones ==
    \/ \E t \in Times, Tovu \in TovuSet : Evaluate(t, Tovu)
    \/ \E sizes \in [1..NumFollicles(y, para) -> SmallSizes], h \in FSHSet : Integrate(sizes, h)
    \/ \E m \in {0, 1} : SetMode(m)

SpecHormones == InitHormones /\ [][NextHormones]_vars

-----------------------------------------------------------------------------
(* forecasting.py: sample_data and the script that calls it *)

\* no simulation is under way while the forecasting scripts run
NoFollicleRun ==
    /\ y = <<>> /\ Follicles = [Follicle |-> <<>>, Active |-> <<>>, ActiveFSHS |-> <<>>]
    /\ para = <<>> /\ parafoll = <<>> /\ Par = <<>>
    /\ f = <<>> /\ E2_lvl = 0 /\ P4_lvl = 0
    /\ pre = NoCall /\ called = FALSE /\ raised = FALSE /\ writes = <<>>

\* Times are in half hours of the simulation in the model's scale: DiscardTime
\* stands for num_initial_days_to_discard*24, SamplingStep for the sampling
\* frequency of one hour, MaxTime for the end of the simulation output and of
\* the new index (test_days_end*24)
MaxTime == 6
DiscardTime == 2
SamplingStep == 2
ValueSet == {1000, 2000, 4000}

\* line 109: the rows of combined_df that are kept
Filtered(times) == {tm \in times : tm > DiscardTime}

\* the index of the filtered frame: the simulation writes its rows in order of time
Ascending(S) ==
    CHOOSE q \in [1..Cardinality(S) -> S] :
        \A a, b \in 1..Cardinality(S) : a < b => q[a] < q[b]

\* lines 126-128 and 136: the new index runs from the discard time to the stop
\* time in sampling steps
NewIndex ==
    [k \in 1..((MaxTime - DiscardTime) \div SamplingStep + 1) |->
        DiscardTime + (k - 1) * SamplingStep]

\* lines 38-39: i after the while loop, or -1 when index[i + 1] is out of range
RECURSIVE Advance(_, _, _)
Advance(index, i, curr_time) ==
    IF i + 2 > Len(index) THEN -1
    ELSE IF index[i + 2] < curr_time THEN Advance(index, i + 1, curr_time)
    ELSE i

\* lines 51-55, the branch of times that are not np.datetime64
Interpolate(x0, y0, x1, y1, x) ==
    Mul(y0, Div(x1 - x, x1 - x0)) + Mul(y1, Div(x - x0, x1 - x0))

\* lines 37-56: one pass of the loop over new_index, for one feature
sample_data_step ==
    /\ sampler.active /\ ~sampler.raised /\ ~sampler.returned
    /\ sampler.pos < Len(sampler.new_index)
    /\ LET curr_time == sampler.new_index[sampler.pos + 1]
           i == Advance(sampler.index, sampler.i, curr_time)
       IN  IF i < 0
           THEN sampler' = [sampler EXCEPT !.raised = TRUE]
           ELSE LET x0 == sampler.index[i + 1]
                    y0 == sampler.feature[i + 1]
                    x1 == sampler.index[i + 2]
                    y1 == sampler.feature[i + 2]
                IN  sampler' = [sampler EXCEPT
                        !.i = i,
                        !.pos = @ + 1,
                        !.hormone_levels = Append(@, Interpolate(x0, y0, x1, y1, curr_time)),
                        !.rows = Append(@, [x0 |-> x0, y0 |-> y0, x1 |-> x1, y1 |-> y1,
                                            x |-> curr_time])]
    /\ UNCHANGED <<y, Follicles, para, parafoll, Par, f, E2_lvl, P4_lvl, pre, called,
                   raised, writes, comparator, predictor>>

\* lines 58-63: the sampled frame is built and returned
sample_data_return ==
    /\ sampler.active /\ ~sampler.raised /\ ~sampler.returned
    /\ sampler.pos = Len(sampler.new_index)
    /\ sampler' = [sampler EXCEPT !.returned = TRUE]
    /\ UNCHANGED <<y, Follicles, para, parafoll, Par, f, E2_lvl, P4_lvl, pre, called,
                   raised, writes, comparator, predictor>>

\* lines 109-140: the script filters the simulation output and resamples it
InitSample ==
    /\ NoFollicleRun /\ comparator = NoComparator /\ predictor = NoPredictor
    /\ \E times \in SUBSET (0..MaxTime) :
        /\ Cardinality(Filtered(times)) >= 2
        /\ \E values \in [1..Cardinality(Filtered(times)) -> ValueSet] :
            sampler = [active |-> TRUE, index |-> Ascending(Filtered(times)),
                       feature |-> values, new_index |-> NewIndex,
                       i |-> 0, pos |-> 0, hormone_levels |-> <<>>, rows |-> <<>>,
                       raised |-> FALSE, returned |-> FALSE]

NextSample == sample_data_step \/ sample_data_return

SpecSample == InitSample /\ [][NextSample]_vars

-----------------------------------------------------------------------------
(* model_comparison.py: ModelComparator.compare_models *)

\* the comparator's settings, scaled down: windows of input_length +
\* pred_length samples move over the first `duration` samples in steps of `step`
MaxDuration == 6
input_length == 2
pred_length == 2
step == 1
peak_comparison_distance == 1
MinPeakDistance == 2
ModelNames == {"m1", "m2"}

\* sets of sample positions that find_peaks can return: no two closer than
\* the minimal peak distance
Spaced(S) == \A a, b \in S : a # b => (IF a < b THEN b - a ELSE a - b) >= MinPeakDistance

\* lines 46-47: the peaks of the ground truth
PeakSets == {S \in SUBSET (0..(MaxDuration - 1)) : Spaced(S)}

\* line 112: the peaks a model finds in its forecast of pred_length samples
PredPeakSets == {S \in SUBSET (0..(pred_length - 1)) : Spaced(S)}

Abs(a) == IF a < 0 THEN 0 - a ELSE a

RECURSIVE SetSum(_, _)
SetSum(fn, S) ==
    IF S = {} THEN 0
    ELSE LET e == CHOOSE e \in S : TRUE IN fn[e] + SetSum(fn, S \ {e})

\* lines 116-117: for every point its signed distance to the nearest reference
\* peak (no distances when there is no reference peak)
get_signed_distances(ref, pts) ==
    IF ref = {} THEN [p \in {} |-> 0]
    ELSE [p \in pts |->
            LET nearest == CHOOSE r \in ref :
                    \A q \in ref : Abs(p - r) < Abs(p - q) \/ (Abs(p - r) = Abs(p - q) /\ r <= q)
            IN  p - nearest]

\* the distances of fn as a dictionary from distance to number of occurrences
Counted(fn) ==
    [d \in {fn[p] : p \in DOMAIN fn} |-> Cardinality({p \in DOMAIN fn : fn[p] = d})]

\* the keys of fn at distance within the comparison threshold
Within(fn) == {p \in DOMAIN fn : Abs(fn[p]) <= peak_comparison_distance}

\* line 91-92
CurrPeaks(peaks, offset) ==
    {x - offset : x \in {x \in peaks : offset <= x /\ x < input_length + pred_length + offset}}

\* lines 93-94
GtPeaksPredWindow(peaks, offset) ==
    {x - offset : x \in {x \in peaks :
        offset + input_length <= x /\ x < input_length + pred_length + offset}}

\* line 121: the test under which the statistics of a window are accumulated
Accumulates(curr_peaks, gt_peaks_predWindow) == Cardinality(curr_peaks) > 0

EmptyResults ==
    [num_detected_peaks |-> [m \in ModelNames |-> 0],
     peaks_within_threshold |-> [m \in ModelNames |-> 0],
     peaks_outside_threshold |-> [m \in ModelNames |-> 0],
     sum_of_dists_to_nearest_peak |-> [m \in ModelNames |-> 0],
     peaks_within_threshold_rev |-> [m \in ModelNames |-> 0],
     peaks_outside_threshold_rev |-> [m \in ModelNames |-> 0],
     peak_distances_distribution |-> [m \in ModelNames |-> EmptyBag],
     peak_distances_distribution_rev |-> [m \in ModelNames |-> EmptyBag]]

\* lines 108-144: the results after the pass of the loop over the models for
\* the window at offset; pred_peaks[m] are the peaks model m finds in its forecast
WindowResults(results, peaks, offset, pred_peaks) ==
    LET curr_peaks == CurrPeaks(peaks, offset)
        gt_peaks_predWindow == GtPeaksPredWindow(peaks, offset)
        all_peaks_offset == {x - offset : x \in peaks}
        offset_pred_peaks(m) == {p + input_length : p \in pred_peaks[m]}
        signed(m) == get_signed_distances(all_peaks_offset, offset_pred_peaks(m))
        signed_rev(m) == get_signed_distances(offset_pred_peaks(m), gt_peaks_predWindow)
        absolute(m) == [p \in DOMAIN signed(m) |-> Abs(signed(m)[p])]
        go == Accumulates(curr_peaks, gt_peaks_predWindow)
    IN  [num_detected_peaks |->
            [m \in ModelNames |-> results.num_detected_peaks[m] + Cardinality(pred_peaks[m])],
         peaks_within_threshold |->
            [m \in ModelNames |-> results.peaks_within_threshold[m]
                + (IF go THEN Cardinality(Within(signed(m))) ELSE 0)],
         peaks_outside_threshold |->
            [m \in ModelNames |-> results.peaks_outside_threshold[m]
                + (IF go THEN Cardinality(pred_peaks[m]) - Cardinality(Within(signed(m)))
                   ELSE 0)],
         sum_of_dists_to_nearest_peak |->
            [m \in ModelNames |-> results.sum_of_dists_to_nearest_peak[m]
                + (IF go THEN SetSum(absolute(m), DOMAIN absolute(m)) ELSE 0)],
         peaks_within_threshold_rev |->
            [m \in ModelNames |-> results.peaks_within_threshold_rev[m]
                + (IF go THEN Cardinality(Within(signed_rev(m))) ELSE 0)],
         peaks_outside_threshold_rev |->
            [m \in ModelNames |-> results.peaks_outside_threshold_rev[m]
                + (IF go THEN Cardinality(gt_peaks_predWindow)
                              - Cardinality(Within(signed_rev(m)))
                   ELSE 0)],
         peak_distances_distribution |->
            [m \in ModelNames |->
                IF go THEN results.peak_distances_distribution[m] (+) Counted(signed(m))
                ELSE results.peak_distances_distribution[m]],
         peak_distances_distribution_rev |->
            [m \in ModelNames |->
                IF go THEN results.peak_distances_distribution_rev[m] (+) Counted(signed_rev(m))
                ELSE results.peak_distances_distribution_rev[m]]]

\* line 62: the offsets of the windows
Offsets == {o \in 0..(MaxDuration - pred_length - input_length) : o % step = 0}

\* lines 62-165: one pass of the loop over the windows
compare_window(pred_peaks) ==
    /\ comparator.active /\ ~comparator.stored
    /\ comparator.offset \in Offsets
    /\ comparator' = [comparator EXCEPT
            !.results = WindowResults(@, comparator.peaks, comparator.offset, pred_peaks),
            !.offset = @ + step,
            !.window = [offset |-> comparator.offset, pred_peaks |-> pred_peaks]]
    /\ UNCHANGED <<y, Follicles, para, parafoll, Par, f, E2_lvl, P4_lvl, pre, called,
                   raised, writes, sampler, predictor>>

\* line 166: the results of the run are stored
compare_store ==
    /\ comparator.active /\ ~comparator.stored
    /\ comparator.offset \notin Offsets
    /\ comparator' = [comparator EXCEPT !.stored = TRUE]
    /\ UNCHANGED <<y, Follicles, para, parafoll, Par, f, E2_lvl, P4_lvl, pre, called,
                   raised, writes, sampler, predictor>>

\* lines 36-47: the comparison starts with empty results and the peaks of the
\* ground truth
InitCompare ==
    /\ NoFollicleRun /\ sampler = NoSampler /\ predictor = NoPredictor
    /\ \E peaks \in PeakSets :
        comparator = [active |-> TRUE, peaks |-> peaks, offset |-> 0,
                      results |-> EmptyResults,
                      window |-> [offset |-> 0, pred_peaks |-> [m \in ModelNames |-> {}]],
                      stored |-> FALSE]

NextCompare ==
    \/ \E pred_peaks \in [ModelNames -> PredPeakSets] : compare_window(pred_peaks)
    \/ compare_store

SpecCompare == InitCompare /\ [][NextCompare]_vars

-----------------------------------------------------------------------------
(* ovulation_predicting/models.py: ClassificationMLP.get_peaks, peaks_combined *)

\* The forecast has OutSteps values; PeakHorizon stands for the literal 35 of
\* line 432 (the out_steps the models are built with) and PeakOffset for the
\* literal 15 of line 428, on a forecast of 6 values in place of 35
OutSteps == 6
PeakHorizon == 6
PeakOffset == 2
min_peak_distance == 2
PredValues == {1, 2, 3}

\* values[index] for a 0-based index
At(values, index) == values[index + 1]

\* scipy.signal.find_peaks before the distance filter: the 0-based middle of
\* every run of equal values with a strictly lower value on each side
LocalMaxima(values) ==
    LET n == Len(values)
    IN  {(l + r - 2) \div 2 : <<l, r>> \in
            {lr \in (2..(n - 1)) \X (2..(n - 1)) :
                /\ lr[1] <= lr[2]
                /\ \A k \in lr[1]..lr[2] : values[k] = values[lr[1]]
                /\ values[lr[1] - 1] < values[lr[1]]
                /\ values[lr[2] + 1] < values[lr[1]]}}

\* the distance filter of find_peaks: from the highest peak down, a peak that
\* is kept removes the peaks closer to it than distance
RECURSIVE SelectByDistance(_, _, _)
SelectByDistance(order, keep, distance) ==
    IF order = <<>> THEN keep
    ELSE LET j == Head(order)
         IN  IF j \notin keep THEN SelectByDistance(Tail(order), keep, distance)
             ELSE SelectByDistance(Tail(order),
                      keep \ {k \in keep : k # j /\ Abs(k - j) < distance}, distance)

\* the peaks in the order of their heights, highest first
ByHeight(values, S) ==
    CHOOSE q \in [1..Cardinality(S) -> S] :
        \A a, b \in 1..Cardinality(S) : a < b =>
            \/ At(values, q[a]) > At(values, q[b])
            \/ (At(values, q[a]) = At(values, q[b]) /\ q[a] > q[b])

\* line 429: pred_peaks, as the set of its 0-based indexes
find_peaks(values, distance) ==
    SelectByDistance(ByHeight(values, LocalMaxima(values)), LocalMaxima(values), distance)

\* lines 419-425
is_peak(index, values) ==
    IF index = 0 THEN At(values, index) > At(values, index + 1)
    ELSE IF index = Len(values) - 1 THEN At(values, index) > At(values, index - 1)
    ELSE At(values, index) > At(values, index - 1) /\ At(values, index) > At(values, index + 1)

Least(S) == CHOOSE a \in S : \A b \in S : a <= b

\* lines 433-440: the indexes the loop over sorted_indexes can stop at, the
\* highest value first; argsort may order equal values either way
SecondPeaks(prediction, first_peak) ==
    LET candidates == {index \in (first_peak + PeakOffset)..(Len(prediction) - 1) :
                           is_peak(index, prediction)}
    IN  {index \in candidates :
            \A other \in candidates : At(prediction, index) >= At(prediction, other)}

\* lines 427-443: the outcomes of peaks_combined(prediction, distance);
\* pred_peaks[0] raises IndexError when find_peaks found no peak
peaks_combined(prediction, distance) ==
    LET pred_peaks == find_peaks(prediction, distance)
    IN  IF pred_peaks = {} THEN {[raised |-> TRUE, result |-> <<>>]}
        ELSE LET first_peak == Least(pred_peaks)
             IN  IF first_peak + PeakOffset < PeakHorizon
                    /\ SecondPeaks(prediction, first_peak) # {}
                 THEN {[raised |-> FALSE, result |-> <<first_peak, peak_index>>] :
                          peak_index \in SecondPeaks(prediction, first_peak)}
                 ELSE {[raised |-> FALSE, result |-> <<first_peak>>]}

\* lines 400-401: get_peaks(prediction, 'combined')
get_peaks_combined ==
    /\ predictor.active /\ predictor.method = "combined" /\ ~predictor.called
    /\ \E r \in peaks_combined(predictor.prediction, min_peak_distance) :
          predictor' = [predictor EXCEPT !.called = TRUE, !.raised = r.raised,
                                         !.result = r.result]
    /\ UNCHANGED <<y, Follicles, para, parafoll, Par, f, E2_lvl, P4_lvl, pre, called,
                   raised, writes, sampler, comparator>>

\* a forecast of the model, any values
InitPeaks ==
    /\ NoFollicleRun /\ sampler = NoSampler /\ comparator = NoComparator
    /\ \E prediction \in [1..OutSteps -> PredValues] :
          predictor = [active |-> TRUE, method |-> "combined", prediction |-> prediction,
                       called |-> FALSE, raised |-> FALSE, result |-> <<>>]

NextPeaks == get_peaks_combined

SpecPeaks == InitPeaks /\ [][NextPeaks]_vars

-----------------------------------------------------------------------------
(* ovulation_predicting/models.py: Distributed_peaks.call *)

\* random.random()/10 lies in [0, 0.1): three of its values, in thousandths
NoiseValues == {0, 50, 99}

\* range(k) of lines 474 and 478 is empty for k <= 0
RangeLen(k) == IF k > 0 THEN k ELSE 0

\* lines 474-478: the array before the reshape, for the noise drawn
Distributed(position, out_steps, before, after) ==
    before \o <<200, 500, 200>> \o after

\* lines 468-480: one call; tf.reshape to (1, out_steps, num_features) with
\* num_features = 1 raises when the array does not have out_steps values
Distributed_peaks_call ==
    /\ predictor.active /\ predictor.method = "call" /\ ~predictor.called
    /\ \E before \in [1..RangeLen(predictor.position - 2) -> NoiseValues],
          after \in [1..RangeLen(predictor.out_steps - predictor.position - 1) -> NoiseValues] :
          LET result == Distributed(predictor.position, predictor.out_steps, before, after)
          IN  predictor' = [predictor EXCEPT !.called = TRUE,
                                !.raised = (Len(result) # predictor.out_steps),
                                !.result = result]
    /\ UNCHANGED <<y, Follicles, para, parafoll, Par, f, E2_lvl, P4_lvl, pre, called,
                   raised, writes, sampler, comparator>>

\* lines 462-466: a model built for any position 0 .. out_steps-1
InitDistributed ==
    /\ NoFollicleRun /\ sampler = NoSampler /\ comparator = NoComparator
    /\ \E position \in 0..(OutSteps - 1) :
          predictor = [active |-> TRUE, method |-> "call", position |-> position,
                       out_steps |-> OutSteps, called |-> FALSE, raised |-> FALSE,
                       result |-> <<>>]

NextDistributed == Distributed_peaks_call

SpecDistributed == InitDistributed /\ [][NextDistributed]_vars

-----------------------------------------------------------------------------
(* C11 - C20 *)

\* the sizes at entry with the slots of the follicles tagged in dset replaced by 0
WithoutTagged(dset) ==
    [i \in 1..PreN |-> IF PreRec(i).Destiny \in dset THEN 0 ELSE pre.y[i]]

\* C11: in a normal-mode call every slot whose follicle is Ovulated (4) or
\* Atretic (-3) adds 0 to SF, whatever size it held at entry: the E2 level is
\* the one computed from the sizes of the other follicles alone (those marked
\* for decline, -2, are left out as well).
C11_SecretionExclusion ==
    (Normal /\ ~raised) =>
        LET x == XView(pre.y, pre.Follicles, para)
        IN  /\ \A i \in 1..PreN :
                  PreRec(i).Destiny \in {Ovulated, Atretic} => HillTerm(x[i], Par) = 0
            /\ E2_lvl = E2Level(pre.t, WithoutTagged({Ovulated, Atretic, MarkedForDecline}),
                                pre.Tovu, Par)

\* C11 witness: a normal-mode call with an Ovulated follicle of positive size
\* next to a Growing one that does secrete
C11_Witness ==
    Normal /\ ~raised /\ \E i, j \in 1..PreN :
        /\ PreRec(i).Destiny = Ovulated /\ pre.y[i] > 0
        /\ PreRec(j).Destiny = Growing /\ HillTerm(pre.y[j], Par) > 0

C18_ParametersReadOnly ==
    [][called' => (para' = para /\ parafoll' = parafoll /\ Par' = Par)]_vars

\* C18 witness: a normal-mode call that took the marking branch
C18_Witness ==
    Normal /\ \E k \in RecIds : Follicles.Follicle[k] # pre.Follicles.Follicle[k]

\* C13: a call in which len(y) - para[1] differs from the length of the active
\* list ends in an error, whether the list is the longer or the shorter one.
C13_MismatchFatal ==
    (called /\ NumFollicles(pre.y, para) # Len(pre.Follicles.Active)) => raised

\* C15: a derivative vector with a non-finite slot is never handed back as the
\* normal result of a call: such a call ends in an error.
C15_NonFiniteFatal ==
    (called /\ ~raised) => \A i \in 1..Len(f) : f[i] # NaN

CodeX(i) ==
    LET z == ZeroedY(pre.y, pre.Follicles, para)
    IN  GrowthX(z[i], pre.Follicles.ActiveFSHS[i], PyIndex(z, Len(z) - 15),
                P4Level(pre.t, pre.Tovu, Par),
                SumV(XView(pre.y, pre.Follicles, para), parafoll), parafoll)

\* slot i holds a Growing follicle that no clause other than the one of line 70
\* can mark: X is above parafoll[11] and Time[0] - Time[-1] is within parafoll[14]
OnlyMidRule(i) ==
    /\ PreRec(i).Destiny = Growing
    /\ CodeX(i) > parafoll[11]
    /\ PreRec(i).Time[1] - PreRec(i).Time[Len(PreRec(i).Time)] <= parafoll[14]

\* C16 as stated: a Growing follicle is marked by the mid-threshold rule exactly
\* when X <= parafoll[12] and the time since its decline mark (TimeDecrease) is
\* at least parafoll[13].
C16_ReentryAsStated ==
    (Normal /\ ~raised) => \A i \in 1..PreN :
        OnlyMidRule(i) =>
            (PostRec(i).Destiny = MarkedForDecline <=>
                (CodeX(i) <= parafoll[12]
                    /\ pre.t - PreRec(i).TimeDecrease >= parafoll[13]))

\* C16 amended: a Growing follicle is marked by the mid-threshold rule exactly
\* when X <= parafoll[12] and the time since its first recorded sample
\* (t - Time[0], its age since activation) is at least parafoll[13].
C16_MidRuleByAge ==
    (Normal /\ ~raised) => \A i \in 1..PreN :
        OnlyMidRule(i) =>
            (PostRec(i).Destiny = MarkedForDecline <=>
                (CodeX(i) <= parafoll[12]
                    /\ pre.t - PreRec(i).Time[1] >= parafoll[13]))

\* C16 witness: a call at t = 1 on a Growing follicle activated at 1, with
\* X <= parafoll[12] and TimeDecrease = 0: its age is 0, the time since
\* TimeDecrease is 1 >= parafoll[13], and it stays Growing with derivative X
C16_Witness ==
    Normal /\ ~raised /\ pre.t = 1 /\ \E i \in 1..PreN :
        /\ OnlyMidRule(i) /\ CodeX(i) <= parafoll[12]
        /\ PreRec(i).Time[1] = 1 /\ PreRec(i).TimeDecrease = 0
        /\ pre.t - PreRec(i).TimeDecrease >= parafoll[13]
        /\ PostRec(i).Destiny = Growing
        /\ f[i] = CodeX(i)

\* C17: in a normal-mode call a follicle whose most recent recorded size is
\* smaller than its oldest recorded size by more than parafoll[14] is marked
\* for decline, whatever its X and destiny.
C17_StagnationGuard ==
    (Normal /\ ~raised) => \A i \in 1..PreN :
        LET rec == PreRec(i)
        IN  rec.Y[1] - rec.Y[Len(rec.Y)] > parafoll[14] * Scale =>
                PostRec(i).Destiny = MarkedForDecline

\* min and max of two numbers
Lower(a, b) == IF a <= b THEN a ELSE b
Upper(a, b) == IF a <= b THEN b ELSE a

\* C19: every time c of new_index is bracketed by the two rows used for it,
\* index[i] <= c <= index[i + 1], so that each sampled value lies between the
\* values of the two rows: an interpolation, never an extrapolation; the first
\* time of new_index as the script builds it included.
C19_Bracketing ==
    sampler.active => \A k \in 1..Len(sampler.rows) :
        LET row == sampler.rows[k]
        IN  /\ row.x0 <= row.x /\ row.x <= row.x1
            /\ Lower(row.y0, row.y1) <= sampler.hormone_levels[k]
            /\ sampler.hormone_levels[k] <= Upper(row.y0, row.y1)

\* the statistics compare_models keeps about the peaks, per model
PeakStatistics(results) ==
    <<results.peaks_within_threshold, results.peaks_outside_threshold,
      results.sum_of_dists_to_nearest_peak, results.peaks_within_threshold_rev,
      results.peaks_outside_threshold_rev, results.peak_distances_distribution,
      results.peak_distances_distribution_rev>>

\* C20: the pass for a window without a ground-truth peak in its output part,
\* [offset + input_length, offset + input_length + pred_length), leaves the
\* peak statistics of every model as they were.
C20_OnlyOutputPeaks ==
    [][(/\ comparator.active /\ comparator'.active
        /\ comparator'.offset # comparator.offset
        /\ GtPeaksPredWindow(comparator.peaks, comparator.offset) = {})
       => PeakStatistics(comparator'.results) = PeakStatistics(comparator.results)]_vars

\* C21: peaks_combined returns, for every prediction and without error, one or
\* two indexes: the first peak found and, when present, an index at least the
\* offset (15) after it that is a local maximum of the prediction.
C21_AtMostTwoPeaks ==
    (predictor.active /\ predictor.called) =>
        /\ ~predictor.raised
        /\ Len(predictor.result) \in {1, 2}
        /\ predictor.result[1] = Least(LocalMaxima(predictor.prediction))
        /\ Len(predictor.result) = 2 =>
              /\ predictor.result[2] >= predictor.result[1] + PeakOffset
              /\ is_peak(predictor.result[2], predictor.prediction)

\* C22: for every position in 0 .. out_steps-1 the call returns out_steps
\* values, 0.5 at index position, 0.2 on each side of it, and every other value
\* below 0.1.
C22_PeakAtPosition ==
    (predictor.active /\ predictor.called) =>
        /\ ~predictor.raised
        /\ Len(predictor.result) = predictor.out_steps
        /\ \A k \in 0..(Len(predictor.result) - 1) :
              IF k = predictor.position THEN At(predictor.result, k) = 500
              ELSE IF Abs(k - predictor.position) = 1 THEN At(predictor.result, k) = 200
              ELSE At(predictor.result, k) < 100

-----------------------------------------------------------------------------
(* C21 - C27, FollicleFunction *)

\* C23: the only Destiny a step ever writes is -2: a Destiny that changes
\* changes to -2, a follicle that is -2 stays -2, and in every normal-mode call
\* a follicle that is -2 at entry gets the derivative of the decay branch
\* (line 80), so the set of follicles tagged -2 only grows.
C23_OnlyDeclineWritten ==
    [][/\ \A k \in RecIds :
            LET a == Follicles.Follicle[k]
                b == Follicles'.Follicle[k]
            IN  /\ b.Destiny # a.Destiny => b.Destiny = MarkedForDecline
                /\ a.Destiny = MarkedForDecline => b.Destiny = MarkedForDecline
       /\ (called' /\ para'[0] = 0 /\ ~raised') =>
            LET z == ZeroedY(pre'.y, pre'.Follicles, para')
            IN  \A i \in 1..NumFollicles(pre'.y, para') :
                    Rec(pre'.Follicles, i - 1).Destiny = MarkedForDecline =>
                        f'[i] = DeclineDerivative(z[i], pre'.t, Rec(pre'.Follicles, i - 1))]_vars

\* C23 witness: a normal-mode call on a follicle marked by an earlier call, which
\* in the same call marks another follicle
C23_Witness ==
    Normal /\ ~raised /\ \E i, j \in 1..PreN :
        /\ PreRec(i).Destiny = MarkedForDecline /\ PostRec(i).Destiny = MarkedForDecline
        /\ writes[pre.Follicles.Active[i]] = 1
        /\ PreRec(j).Destiny # MarkedForDecline /\ PostRec(j).Destiny = MarkedForDecline

MarkedNow ==
    {i \in 1..PreN : /\ PreRec(i).Destiny # MarkedForDecline
                     /\ PostRec(i).Destiny = MarkedForDecline}

\* C25: in the normal-mode call that marks a follicle its entry size still
\* counts in SF (so in E2) and in SumV, the crowding sum every follicle of the
\* call sees; a follicle that is -2 at entry counts 0 in both.
C25_ExclusionLag ==
    (Normal /\ ~raised /\ PreN > 0) =>
        LET x == XView(pre.y, pre.Follicles, para)
            counted == [i \in 1..PreN |->
                          IF i \in MarkedNow \/ PreRec(i).Destiny \in {Growing, Dominant}
                          THEN pre.y[i] ELSE 0]
        IN  /\ \A i \in MarkedNow : x[i] = pre.y[i]
            /\ \A i \in 1..PreN : PreRec(i).Destiny = MarkedForDecline => x[i] = 0
            /\ E2_lvl = E2Level(pre.t, counted, pre.Tovu, Par)
            /\ \A j \in 1..PreN :
                  (PreRec(j).Destiny \in {Growing, Dominant} /\ j \notin MarkedNow) =>
                      f[j] = GrowthX(pre.y[j], pre.Follicles.ActiveFSHS[j],
                                     PyIndex(pre.y, Len(pre.y) - 15),
                                     P4Level(pre.t, pre.Tovu, Par),
                                     SumV(counted, parafoll), parafoll)

\* the orders in which n active follicles can be listed
ActiveListings(n) == {q \in [1..n -> 1..n] : \A a, b \in 1..n : a # b => q[a] # q[b]}

\* y with its n follicle slots in the order q, the other slots in place
PermutedY(yy, n, q) == [j \in 1..Len(yy) |-> IF j <= n THEN yy[q[j]] ELSE yy[j]]

\* the registry with Active and ActiveFSHS in the order q
PermutedRegistry(F, n, q) ==
    [F EXCEPT !.Active = [j \in 1..n |-> F.Active[q[j]]],
              !.ActiveFSHS = [j \in 1..n |-> F.ActiveFSHS[q[j]]]]

\* C26: in one call the derivative and the marking of every follicle are those
\* its own entry state gives (its size after the zeroing at entry, its record,
\* the SumV computed before the loop), whatever the loop did to the follicles
\* before it; the call on y, Active and ActiveFSHS listed in another order
\* returns the same derivatives in that order and leaves the same records.
C26_OrderIndependent ==
    (called /\ ~raised /\ PreN > 0) =>
        LET z == ZeroedY(pre.y, pre.Follicles, para)
        IN  /\ \A j \in 1..PreN :
                  /\ f[j] = BodyDerivative(CodeX(j), z[j], PreRec(j), pre.t, para, parafoll)
                  /\ PostRec(j) = BodyRecord(CodeX(j), PreRec(j), pre.t, para, parafoll)
            /\ \A q \in ActiveListings(PreN) :
                  LET r == FollicleFunction(pre.t, PermutedY(pre.y, PreN, q), pre.Tovu,
                                            PermutedRegistry(pre.Follicles, PreN, q),
                                            para, parafoll, Par)
                  IN  /\ ~r.raised
                      /\ r.f = [j \in 1..PreN |-> f[q[j]]]
                      /\ r.y = PermutedY(y, PreN, q)
                      /\ r.Follicles.Follicle = Follicles.Follicle
                      /\ r.E2_lvl = E2_lvl

\* C26 witness: a normal-mode call on two follicles of different sizes that
\* marks the first and not the second, with different derivatives
C26_Witness ==
    Normal /\ ~raised /\ PreN = 2
        /\ pre.y[1] # pre.y[2] /\ f[1] # f[2]
        /\ PreRec(1).Destiny = Growing /\ PostRec(1).Destiny = MarkedForDecline
        /\ PreRec(2).Destiny = Growing /\ PostRec(2).Destiny = Growing

\* the slot of y that line 41 reads (a negative index counts from the end), 0-based
FshSlot == IF FshIndex(pre.y) >= 0 THEN FshIndex(pre.y) ELSE Len(pre.y) + FshIndex(pre.y)

\* the slot read is not a follicle slot and the zeroing at entry left it alone
FshSlotIsHormone ==
    /\ FshSlot >= PreN
    /\ At(ZeroedY(pre.y, pre.Follicles, para), FshSlot) = At(pre.y, FshSlot)
    /\ At(y, FshSlot) = At(pre.y, FshSlot)

\* C27 as stated: in every call that returns, whatever para[1], the slot at
\* index len(y) - 15 is at or after the first non-follicle slot and is not one
\* of the slots zeroed at entry.
C27_FshSlotAsStated == (called /\ ~raised) => FshSlotIsHormone

\* C27, the part that holds: in every call that returns with para[1] >= 15,
\* the slot at index len(y) - 15 is at or after the first non-follicle slot and
\* is not one of the slots zeroed at entry.
C27_FshSlotIsHormone == (called /\ ~raised /\ para[1] >= 15) => FshSlotIsHormone

====
